---- MODULE Spec2Model ----
(***************************************************************************)
(* AudioToCharDALIDataset.__init__ (nemo/collections/asr/data/              *)
(* audio_to_text_dali.py) as a state machine.  The constructor is the only  *)
(* operation of the file; it is cut at its statements' boundaries so that   *)
(* "raised before ...", "declared after ..." are visible as states.         *)
(*                                                                          *)
(* Representation of Python values                                          *)
(*   None / a value      : None == <<>>,  Some(x) == <<x>>  for every        *)
(*                         attribute or argument that may be None            *)
(*   seconds             : integer milliseconds (0.02 s is 20)               *)
(*   dither, guard value : integer multiples of 1e-5                         *)
(*   preemph             : integer multiples of 0.01                         *)
(*   frequencies         : integer half-hertz, so that sample_rate / 2.0     *)
(*                         is exact for odd sample rates                     *)
(*   a str / a number in log_zero_guard_value : [str |-> s] / [num |-> n]    *)
(*   torch.finfo(float32).tiny / .eps : [finfo |-> "tiny"] / [finfo |-> "eps"]*)
(*   self                : a function from attribute names to values; an     *)
(*                         attribute that was never assigned is not in its   *)
(*                         domain, and reading it raises AttributeError      *)
(***************************************************************************)
EXTENDS Integers, Sequences, FiniteSets, TLC

VARIABLES args, self, pc, feature_type, pipes, error, iterator

vars == <<args, self, pc, feature_type, pipes, error, iterator>>

None == <<>>

Some(x) == <<x>>

Val(o) == o[1]

(* ------------------------------ bounds -------------------------------- *)

\* longest vocabulary tried
MaxVocab == 2

\* largest world_size (and global_rank) tried
MaxWorld == 2

\* most fields present at once in preprocessor_cfg.params
MaxFields == 2

(* ----------------------- the inputs that are tried --------------------- *)

Chars == {"a", "b", "c"}

MelCls == "nemo.collections.asr.modules.AudioToMelSpectrogramPreprocessor"

MFCCCls == "nemo.collections.asr.modules.AudioToMFCCPreprocessor"

OtherCls == "nemo.collections.asr.modules.AudioToSpectrogramPreprocessor"

Fields ==
    {"dither", "preemph", "window_size", "window_stride", "sample_rate",
     "normalize", "window", "n_fft", "n_mels", "n_mfcc", "features",
     "frame_splicing", "lowfreq", "highfreq", "log", "log_zero_guard_type",
     "log_zero_guard_value", "mag_power", "pad_to", "pad_value"}

\* the values tried for a field that is present in params
FieldValues(f) ==
    CASE f = "dither" -> {0, 2}
      [] f = "preemph" -> {0, 50}
      [] f = "window_size" -> {25}
      [] f = "window_stride" -> {15}
      [] f = "sample_rate" -> {8000}
      [] f = "normalize" -> {"per_feature", "all_features", "bogus"}
      [] f = "window" -> {None, Some("hann"), Some("ones"), Some("hamming"),
                          Some("blackman"), Some("bartlett"), Some("bogus")}
      [] f = "n_fft" -> {512}
      [] f = "n_mels" -> {80}
      [] f = "n_mfcc" -> {40}
      [] f = "features" -> {0, 32}
      [] f = "frame_splicing" -> {1, 3}
      [] f = "lowfreq" -> {40}
      [] f = "highfreq" -> {8000}
      [] f = "log" -> {TRUE, FALSE}
      [] f = "log_zero_guard_type" -> {"add", "clamp", "bogus"}
      [] f = "log_zero_guard_value" ->
            {[num |-> 0], [num |-> 2], [str |-> "tiny"], [str |-> "eps"],
             [str |-> "bogus"]}
      [] f = "mag_power" -> {1, 2, 3}
      [] f = "pad_to" -> {8}
      [] f = "pad_value" -> {1}

EmptyDict == [k \in {} |-> 0]

\* dict d with d[k] = v added or replaced
Put(d, k, v) == [x \in DOMAIN d \cup {k} |-> IF x = k THEN v ELSE d[x]]

RECURSIVE ParamsUpTo(_)
\* every params dict with at most n fields present
ParamsUpTo(n) ==
    IF n = 0 THEN {EmptyDict}
    ELSE LET smaller == ParamsUpTo(n - 1)
         IN  smaller \cup
             UNION {UNION {{Put(p, f, v) : v \in FieldValues(f)} :
                           f \in Fields \ DOMAIN p} : p \in smaller}

RECURSIVE SeqsUpTo(_, _)
\* every sequence over S of length at most n
SeqsUpTo(S, n) ==
    IF n = 0 THEN {<<>>}
    ELSE LET smaller == SeqsUpTo(S, n - 1)
         IN  smaller \cup {Append(s, c) : s \in smaller, c \in S}

Cfg(cls, params) == Some([cls |-> cls, params |-> params])

\* the constructor's arguments that the code branches on or computes with;
\* manifest_filepath, num_threads, min_duration, max_duration, shuffle and
\* device_id are passed through to the engine unread and are left out
MkArgs(labels, sample_rate, batch_size, trim_silence, device, global_rank, world_size, cfg) ==
    [labels |-> labels, sample_rate |-> sample_rate, batch_size |-> batch_size,
     trim_silence |-> trim_silence, device |-> device,
     global_rank |-> global_rank, world_size |-> world_size,
     preprocessor_cfg |-> cfg]

\* constructions that vary the arguments of __init__ around a small
\* preprocessor configuration
ArgsByArguments ==
    {MkArgs(l, sr, 32, t, d, r, w, c) :
        l \in {None} \cup {Some(s) : s \in SeqsUpTo(Chars, MaxVocab)},
        sr \in {16000, 22050},
        t \in BOOLEAN, d \in {"cpu", "gpu"},
        r \in 0 .. MaxWorld, w \in 0 .. MaxWorld,
        c \in {None, Cfg(MelCls, EmptyDict), Cfg(OtherCls, EmptyDict)}}

\* constructions that vary preprocessor_cfg.params around fixed arguments
ArgsByParams ==
    {MkArgs(Some(<<"a", "b">>), 16000, b, t, d, 0, 0, Cfg(cls, p)) :
        b \in {8}, t \in BOOLEAN, d \in {"cpu", "gpu"},
        cls \in {MelCls, MFCCCls}, p \in ParamsUpTo(MaxFields)}

(* --------------------------- small helpers ----------------------------- *)

\* d1 updated with every entry of d2
PutAll(d1, d2) ==
    [x \in DOMAIN d1 \cup DOMAIN d2 |-> IF x \in DOMAIN d2 THEN d2[x] ELSE d1[x]]

Range(s) == {s[i] : i \in DOMAIN s}

\* the result of a step of the constructor: the object as the step left it,
\* and the exception it raised, if any
Ok(s) == [self |-> s, error |-> None]

Raise(s, type, param, accepted) ==
    [self |-> s,
     error |-> Some([type |-> type, param |-> param, accepted |-> accepted])]

(* ----------------------------- lines 77-82 ----------------------------- *)

\* ShardOf with the test world_size > 0 in place of world_size > 1
ShardOfWorldOnly(global_rank, world_size) ==
    IF world_size > 0
    THEN [shard_id |-> Some(global_rank), num_shards |-> Some(world_size)]
    ELSE [shard_id |-> None, num_shards |-> None]

ShardOf(global_rank, world_size) ==
    IF world_size > 1
    THEN [shard_id |-> Some(global_rank), num_shards |-> Some(world_size)]
    ELSE [shard_id |-> None, num_shards |-> None]

(* ----------------------------- lines 84-88 ----------------------------- *)

\* LabelsRejected with the test `not self.labels` in place of `is None`
LabelsRejectedWhenEmpty(labels) == labels = None \/ Val(labels) = <<>>

\* the test that raises ValueError: "expects a labels parameter"
LabelsRejected(labels) == labels = None

(* ----------------------------- lines 90-95 ----------------------------- *)

\* Python's ord() on the characters tried
Ord(c) ==
    CASE c = "a" -> 97
      [] c = "b" -> 98
      [] c = "c" -> 99

\* Enumerate with label_id counted from 1
EnumerateFromOne(labels) == [i \in 1 .. Len(labels) |-> <<i, labels[i]>>]

\* enumerate(self.labels): the pairs (label_id, label), label_id from 0
Enumerate(labels) == [i \in 1 .. Len(labels) |-> <<i - 1, labels[i]>>]

RECURSIVE Label2Id(_, _)
\* self.label2id after the first n iterations of the loop of line 91
Label2Id(pairs, n) ==
    IF n = 0 THEN EmptyDict
    ELSE Put(Label2Id(pairs, n - 1), Ord(pairs[n][2]), pairs[n][1])

RECURSIVE Id2Label(_, _)
\* self.id2label after the first n iterations of the loop of line 91
Id2Label(pairs, n) ==
    IF n = 0 THEN EmptyDict
    ELSE Put(Id2Label(pairs, n - 1), pairs[n][1], Ord(pairs[n][2]))

RECURSIVE KeyOrder(_, _)
\* the keys of self.label2id in the order a dict keeps them: the order in
\* which each key was first inserted
KeyOrder(pairs, n) ==
    IF n = 0 THEN <<>>
    ELSE LET prev == KeyOrder(pairs, n - 1)
             k == Ord(pairs[n][2])
         IN  IF k \in Range(prev) THEN prev ELSE Append(prev, k)

\* float(x) of a small integer is the same number (Python: float(3) == 3)
Float(x) == x

LabelMaps(labels) ==
    LET pairs == Enumerate(labels)
        l2i == Label2Id(pairs, Len(pairs))
        keys == KeyOrder(pairs, Len(pairs))
    IN  [label2id |-> l2i,
         id2label |-> Id2Label(pairs, Len(pairs)),
         label2id_keys |-> keys,
         label2id_values |-> [k \in 1 .. Len(keys) |-> Float(l2i[keys[k]])]]

(* ----------------------------- lines 97-98 ----------------------------- *)

NewPipeline(batch_size) ==
    [batch_size |-> batch_size, nodes |-> <<>>, outputs |-> None, built |-> 0]

(* ---------------------------- lines 100-107 ---------------------------- *)

has_preprocessor == args.preprocessor_cfg # None

FeatureTypeOf(cls) ==
    IF cls = MelCls THEN Some("mel_spectrogram")
    ELSE IF cls = MFCCCls THEN Some("mfcc")
    ELSE None

(* ---------------------------- lines 109-204 ---------------------------- *)

\* params[key] if key in params else default
Get(params, key, default) == IF key \in DOMAIN params THEN params[key] ELSE default

\* int(seconds * sample_rate), seconds given in milliseconds
ToSamples(ms, sample_rate) == (ms * sample_rate) \div 1000

\* line 117: self.window_stride = int(self.window_size_sec * self.sample_rate)
WindowStride(window_size_sec, window_stride_sec, sample_rate) ==
    ToSamples(window_size_sec, sample_rate)

\* lines 111-117
ParamsWindowing(s, params, sample_rate) ==
    LET wsz == Get(params, "window_size", 20)
        wst == Get(params, "window_stride", 10)
        sr == Get(params, "sample_rate", sample_rate)
    IN  Ok(PutAll(s, [dither |-> Get(params, "dither", 1),
                      preemph |-> Get(params, "preemph", 97),
                      window_size_sec |-> wsz,
                      window_stride_sec |-> wst,
                      sample_rate |-> sr,
                      window_size |-> ToSamples(wsz, sr),
                      window_stride |-> WindowStride(wsz, wst, sr)]))

\* NormalizationAxes with the two tuples exchanged
NormalizationAxesSwapped(normalize) ==
    IF normalize = "per_feature" THEN Some(<<0, 1>>)
    ELSE IF normalize = "all_features" THEN Some(<<1>>)
    ELSE None

\* lines 120-123: the axes of a normalize value, None where the code raises
NormalizationAxes(normalize) ==
    IF normalize = "per_feature" THEN Some(<<1>>)
    ELSE IF normalize = "all_features" THEN Some(<<0, 1>>)
    ELSE None

\* lines 119-129
ParamsNormalize(s, params) ==
    LET normalize == Get(params, "normalize", "per_feature")
        axes == NormalizationAxes(normalize)
    IN  IF axes # None
        THEN Ok(Put(s, "normalization_axes", Val(axes)))
        ELSE Raise(s, "ValueError", "normalize", {"per_feature", "all_features"})

\* lines 133-137
torch_windows == {"hamming", "blackman", "bartlett"}

\* lines 131-151
ParamsWindow(s, params) ==
    LET s0 == Put(s, "window", None)
        window_name == Get(params, "window", None)
    IN  IF window_name = None \/ window_name = Some("hann")
        THEN Ok(s0)
        ELSE IF window_name = Some("ones")
        THEN Ok(Put(s0, "window", Some([fn |-> "ones", size |-> s.window_size])))
        ELSE IF Val(window_name) \in torch_windows
        THEN Ok(Put(s0, "window",
                    Some([fn |-> Val(window_name), size |-> s.window_size])))
        \* window_fn is None, calling it raises TypeError, the bare except
        \* turns it into the ValueError
        ELSE Raise(s0, "ValueError", "window",
                   {"hann", "ones", "hamming", "blackman", "bartlett", "None"})

\* lines 153-166
ParamsBins(s, params, ft) ==
    LET features == Get(params, "features", 0)
        n_mels == Get(params, "n_mels", 64)
        n_mfcc == Get(params, "n_mfcc", 64)
        s1 == PutAll(s, [n_fft |-> IF "n_fft" \in DOMAIN params
                                   THEN Some(params["n_fft"]) ELSE None,
                         n_mels |-> IF features > 0 /\ ft = "mel_spectrogram"
                                    THEN features ELSE n_mels,
                         n_mfcc |-> IF features > 0 /\ ft = "mfcc"
                                    THEN features ELSE n_mfcc])
    IN  IF "frame_splicing" \in DOMAIN params /\ params["frame_splicing"] # 1
        THEN Raise(s1, "AssertionError", "frame_splicing", {"1"})
        ELSE Ok(s1)

\* lines 168-181; sample_rate / 2.0 in half-hertz is sample_rate
ParamsLogGuardType(s, params) ==
    LET type == Get(params, "log_zero_guard_type", "add")
        s1 == PutAll(s, [freq_low |-> Get(params, "lowfreq", 0),
                         freq_high |-> Get(params, "highfreq", s.sample_rate),
                         log_features |-> Get(params, "log", TRUE),
                         log_zero_guard_type |-> type])
    IN  IF type \notin {"add", "clamp"}
        THEN Raise(s1, "ValueError", "log_zero_guard_type", {"add", "clamp"})
        ELSE Ok(s1)

\* lines 183-194; the message of lines 191-193 says "for the
\* log_zero_guard_type parameter"
ParamsLogGuardValue(s, params) ==
    LET v == Get(params, "log_zero_guard_value", [num |-> 1])
        s1 == Put(s, "log_zero_guard_value", v)
    IN  IF "str" \in DOMAIN v
        THEN IF v.str = "tiny"
             THEN Ok(Put(s, "log_zero_guard_value", [finfo |-> "tiny"]))
             ELSE IF v.str = "eps"
             THEN Ok(Put(s, "log_zero_guard_value", [finfo |-> "eps"]))
             ELSE Raise(s1, "ValueError", "log_zero_guard_type",
                        {"number", "tiny", "eps"})
        ELSE Ok(s1)

\* lines 196-201
ParamsMagPower(s, params) ==
    LET mag_power == Get(params, "mag_power", 2)
        s1 == Put(s, "mag_power", mag_power)
    IN  IF mag_power # 1 /\ mag_power # 2
        THEN Raise(s1, "ValueError", "mag_power", {"1.0", "2.0"})
        ELSE Ok(s1)

\* ParamsPad with the two defaults exchanged
ParamsPadSwapped(s, params) ==
    Ok(PutAll(s, [pad_to |-> Get(params, "pad_to", 0),
                  pad_value |-> Get(params, "pad_value", 16)]))

\* lines 203-204
ParamsPad(s, params) ==
    Ok(PutAll(s, [pad_to |-> Get(params, "pad_to", 16),
                  pad_value |-> Get(params, "pad_value", 0)]))

\* lines 109-204: the statements in order, stopping at the first raise
NormalizeParams(s, params, sample_rate, ft) ==
    LET \* run step F on the object unless an earlier step raised
        Then(r, F(_)) == IF r.error # None THEN r ELSE F(r.self)
        W(x) == ParamsWindowing(x, params, sample_rate)
        N(x) == ParamsNormalize(x, params)
        Wd(x) == ParamsWindow(x, params)
        B(x) == ParamsBins(x, params, ft)
        T(x) == ParamsLogGuardType(x, params)
        V(x) == ParamsLogGuardValue(x, params)
        M(x) == ParamsMagPower(x, params)
        P(x) == ParamsPad(x, params)
    IN  Then(Then(Then(Then(Then(Then(Then(W(s), N), Wd), B), T), V), M), P)

(* ---------------------------- lines 206-291 ---------------------------- *)

\* a node of the graph: the operator, the Python variable its result is
\* bound to, and the keyword arguments the code passes
Node(op, out, kwargs) == [op |-> op, out |-> out, args |-> kwargs]

NoArgs == EmptyDict

\* lines 209-213
ReaderNode(s, a) ==
    Node("nemo_asr_reader", "audio,transcript",
         [name |-> "Reader", sample_rate |-> s.sample_rate,
          shard_id |-> s.shard_id, num_shards |-> s.num_shards])

\* lines 215-220
TranscriptNodes(s, device) ==
    <<Node("reshape", "transcript_len", [shape |-> <<-1>>]),
      Node("shapes", "transcript_len", NoArgs),
      Node("pad", "transcript", NoArgs),
      Node("lookup_table", "transcript",
           [keys |-> s.label2id_keys, values |-> s.label2id_values])>>
    \o (IF device = "gpu"
        THEN <<Node("gpu", "transcript", NoArgs),
               Node("gpu", "transcript_len", NoArgs)>>
        ELSE <<>>)

ToDevice(device) ==
    IF device = "gpu" THEN <<Node("gpu", "audio", NoArgs)>> ELSE <<>>

\* AudioNodes with the transfer declared before the non-silent region
AudioNodesTransferFirst(trim_silence, device) ==
    IF trim_silence
    THEN ToDevice(device)
         \o <<Node("nonsilent_region", "roi", [cutoff_db |-> -60]),
              Node("slice", "audio", [axes |-> <<0>>])>>
    ELSE ToDevice(device)

\* lines 222-231
AudioNodes(trim_silence, device) ==
    IF trim_silence
    THEN <<Node("nonsilent_region", "roi", [cutoff_db |-> -60])>>
         \o ToDevice(device)
         \o <<Node("slice", "audio", [axes |-> <<0>>])>>
    ELSE ToDevice(device)

\* lines 233-237
RawAudioNodes ==
    <<Node("pad", "audio", NoArgs),
      Node("reshape", "audio_len", [shape |-> <<-1>>]),
      Node("shapes", "audio_len", NoArgs)>>

RawAudioOutputs == <<"audio", "audio_len", "transcript", "transcript_len">>

\* lines 239-242
DitherNodes(s, device) ==
    IF s.dither > 0
    THEN <<Node("normal_distribution", "gaussian_noise", [device |-> device]),
           Node("mul", "gaussian_noise", [scalar |-> s.dither]),
           Node("add", "audio", NoArgs)>>
    ELSE <<>>

\* lines 244-246
PreemphNodes(s) ==
    IF s.preemph > 0
    THEN <<Node("preemphasis_filter", "audio", [preemph_coeff |-> s.preemph])>>
    ELSE <<>>

\* lines 248-254
SpectrogramNode(s) ==
    Node("spectrogram", "spec",
         [nfft |-> s.n_fft, window_length |-> s.window_size,
          window_step |-> s.window_stride])

\* lines 256-264; the keyword of line 264 is spelled n_mffc
MelNodes(s, ft) ==
    IF ft \in {"mel_spectrogram", "mfcc"}
    THEN <<Node("mel_filter_bank", "spec",
                [sample_rate |-> s.sample_rate, nfilter |-> s.n_mels,
                 normalize |-> TRUE, freq_low |-> s.freq_low,
                 freq_high |-> s.freq_high])>>
         \o (IF ft = "mfcc"
             THEN <<Node("mfcc", "spec", [n_mffc |-> s.n_mfcc])>>
             ELSE <<>>)
    ELSE <<>>

\* lines 266-268
GuardNodes(s) ==
    IF s.log_zero_guard_type = "add"
    THEN <<Node("add", "spec", [scalar |-> s.log_zero_guard_value])>>
    ELSE <<>>

\* math.log(x) is defined for x > 0 and raises ValueError otherwise; the
\* float32 constants tiny and eps are positive
LogDefined(v) == IF "num" \in DOMAIN v THEN v.num > 0 ELSE TRUE

\* lines 270-291, after math.log(self.log_zero_guard_value) has returned
TailNodes(s) ==
    <<Node("to_decibels", "spec",
           [multiplier |-> "log(10)", reference |-> 1,
            cutoff_db |-> [log |-> s.log_zero_guard_value]]),
      Node("normalize", "spec", [axes |-> s.normalization_axes]),
      Node("shapes", "spec_len", NoArgs),
      Node("slice", "spec_len", [axes |-> <<0>>]),
      Node("pad", "spec",
           [fill_value |-> s.pad_value, axes |-> <<0, 1>>,
            align |-> <<s.pad_to, 1>>, shape |-> <<1, -1>>])>>

FeatureOutputs == <<"spec", "spec_len", "transcript", "transcript_len">>

\* lines 233-291: the nodes declared after the audio branch, the outputs
\* set (None when a call raised before pipe.set_outputs) and the exception
OutputNodes(s, ft, device, has_pre) ==
    IF ~has_pre
    THEN [nodes |-> RawAudioNodes, outputs |-> Some(RawAudioOutputs),
          error |-> None]
    ELSE LET head == DitherNodes(s, device) \o PreemphNodes(s)
                     \o <<SpectrogramNode(s)>> \o MelNodes(s, Val(ft))
                     \o GuardNodes(s)
         IN  IF LogDefined(s.log_zero_guard_value)
             THEN [nodes |-> head \o TailNodes(s),
                   outputs |-> Some(FeatureOutputs), error |-> None]
             ELSE [nodes |-> head, outputs |-> None,
                   error |-> Some([type |-> "ValueError", param |-> "",
                                   accepted |-> {}])]

(* ---------------------------- lines 304-312 ---------------------------- *)

output_names(has_pre) ==
    IF has_pre
    THEN <<"processed_signal", "processed_signal_len", "transcript",
           "transcript_len">>
    ELSE <<"audio", "audio_len", "transcript", "transcript_len">>

(* ------------------------------ the machine ---------------------------- *)

Init ==
    /\ args \in ArgsByArguments \cup ArgsByParams
    /\ self = EmptyDict
    /\ pc = "shard"
    /\ feature_type = None
    /\ pipes = <<>>
    /\ error = None
    /\ iterator = None

Fail(e) == pc' = "failed" /\ error' = e

\* lines 72-82
AssignShard ==
    /\ pc = "shard"
    /\ self' = PutAll(PutAll(self, [batch_size |-> args.batch_size,
                                    device |-> args.device]),
                      ShardOf(args.global_rank, args.world_size))
    /\ pc' = "labels"
    /\ UNCHANGED <<args, feature_type, pipes, error, iterator>>

\* lines 84-88
CheckLabels ==
    /\ pc = "labels"
    /\ self' = Put(self, "labels", args.labels)
    /\ IF LabelsRejected(args.labels)
       THEN Fail(Some([type |-> "ValueError", param |-> "labels",
                       accepted |-> {}]))
       ELSE pc' = "maps" /\ UNCHANGED error
    /\ UNCHANGED <<args, feature_type, pipes, iterator>>

\* lines 90-95
BuildLabelMaps ==
    /\ pc = "maps"
    /\ self' = PutAll(self, LabelMaps(Val(self.labels)))
    /\ pc' = "pipes"
    /\ UNCHANGED <<args, feature_type, pipes, error, iterator>>

\* lines 97-98
CreatePipes ==
    /\ pc = "pipes"
    /\ pipes' = <<NewPipeline(args.batch_size)>>
    /\ pc' = "preprocessor"
    /\ UNCHANGED <<args, self, feature_type, error, iterator>>

\* lines 100-107
SelectFeatureType ==
    /\ pc = "preprocessor"
    /\ IF ~has_preprocessor
       THEN pc' = "reader" /\ UNCHANGED <<feature_type, error>>
       ELSE LET ft == FeatureTypeOf(Val(args.preprocessor_cfg).cls)
            IN  IF ft = None
                THEN /\ Fail(Some([type |-> "AssertionError", param |-> "cls",
                                   accepted |-> {MelCls, MFCCCls}]))
                     /\ UNCHANGED feature_type
                ELSE /\ feature_type' = ft
                     /\ pc' = "params"
                     /\ UNCHANGED error
    /\ UNCHANGED <<args, self, pipes, iterator>>

\* lines 109-204
ReadParams ==
    /\ pc = "params"
    /\ LET r == NormalizeParams(self, Val(args.preprocessor_cfg).params,
                                args.sample_rate, Val(feature_type))
       IN  /\ self' = r.self
           /\ error' = r.error
           /\ pc' = IF r.error = None THEN "reader" ELSE "failed"
    /\ UNCHANGED <<args, feature_type, pipes, iterator>>

AddNodes(ns) == [pipes EXCEPT ![1].nodes = @ \o ns]

\* lines 206-213; float(self.sample_rate) reads an attribute that only
\* line 115 assigns
DeclareReader ==
    /\ pc = "reader"
    /\ IF "sample_rate" \in DOMAIN self
       THEN /\ pipes' = AddNodes(<<ReaderNode(self, args)>>)
            /\ pc' = "transcript"
            /\ UNCHANGED error
       ELSE /\ Fail(Some([type |-> "AttributeError", param |-> "sample_rate",
                          accepted |-> {}]))
            /\ UNCHANGED pipes
    /\ UNCHANGED <<args, self, feature_type, iterator>>

\* lines 215-220
DeclareTranscript ==
    /\ pc = "transcript"
    /\ pipes' = AddNodes(TranscriptNodes(self, self.device))
    /\ pc' = "audio"
    /\ UNCHANGED <<args, self, feature_type, error, iterator>>

\* lines 222-231
DeclareAudio ==
    /\ pc = "audio"
    /\ pipes' = AddNodes(AudioNodes(args.trim_silence, self.device))
    /\ pc' = "outputs"
    /\ UNCHANGED <<args, self, feature_type, error, iterator>>

\* lines 233-291
DeclareOutputs ==
    /\ pc = "outputs"
    /\ LET r == OutputNodes(self, feature_type, self.device, has_preprocessor)
       IN  /\ pipes' = [AddNodes(r.nodes) EXCEPT ![1].outputs = r.outputs]
           /\ error' = r.error
           /\ pc' = IF r.error = None THEN "build" ELSE "failed"
    /\ UNCHANGED <<args, self, feature_type, iterator>>

\* line 294
Build ==
    /\ pc = "build"
    /\ pipes' = [pipes EXCEPT ![1].built = @ + 1]
    /\ pc' = "iterator"
    /\ UNCHANGED <<args, self, feature_type, error, iterator>>

\* lines 296-312
InitIterator ==
    /\ pc = "iterator"
    /\ self' = Put(self, "dataset", "DummyDataset")
    /\ iterator' = Some([output_map |-> output_names(has_preprocessor),
                         reader_name |-> "Reader", fill_last_batch |-> TRUE,
                         dynamic_shape |-> TRUE, auto_reset |-> TRUE])
    /\ pc' = "done"
    /\ UNCHANGED <<args, feature_type, pipes, error>>

Next ==
    \/ AssignShard
    \/ CheckLabels
    \/ BuildLabelMaps
    \/ CreatePipes
    \/ SelectFeatureType
    \/ ReadParams
    \/ DeclareReader
    \/ DeclareTranscript
    \/ DeclareAudio
    \/ DeclareOutputs
    \/ Build
    \/ InitIterator

Spec == Init /\ [][Next]_vars

(* ------------------- the constructor as one function ------------------- *)

\* lines 72-291 run from start to end on arguments a whose labels are given
\* and whose preprocessor class is supported: the nodes declared, in order,
\* and the exception raised, if any
GraphOf(a) ==
    LET cfg == Val(a.preprocessor_cfg)
        ft == FeatureTypeOf(cfg.cls)
        s1 == PutAll(PutAll(EmptyDict, [batch_size |-> a.batch_size,
                                        device |-> a.device]),
                     ShardOf(a.global_rank, a.world_size))
        s2 == PutAll(Put(s1, "labels", a.labels), LabelMaps(Val(a.labels)))
        r == NormalizeParams(s2, cfg.params, a.sample_rate, Val(ft))
        out == OutputNodes(r.self, ft, a.device, TRUE)
    IN  IF r.error # None
        THEN [nodes |-> <<>>, error |-> r.error]
        ELSE [nodes |-> <<ReaderNode(r.self, a)>>
                        \o TranscriptNodes(r.self, a.device)
                        \o AudioNodes(a.trim_silence, a.device)
                        \o out.nodes,
              error |-> out.error]

(* ------------------------------ vocabulary ----------------------------- *)

params == Val(args.preprocessor_cfg).params

nodes == IF pipes = <<>> THEN <<>> ELSE pipes[1].nodes

Finished == pc \in {"done", "failed"}

\* lines 109-204 have been entered
ParamsRead == "dither" \in DOMAIN self

\* lines 109-204 have run to their end without raising
ParamsAccepted == "pad_to" \in DOMAIN self

NodesWith(op) == {i \in DOMAIN nodes : nodes[i].op = op}

(* ================================ C1 =================================== *)

\* C1: with labels supplied (here: a non-empty vocabulary) and
\* preprocessor_cfg absent, construction
\* completes (reader declared, graph built, iterator adapter initialised)
\* and the outputs are named audio, audio_len, transcript, transcript_len;
\* with a valid preprocessor_cfg they are named processed_signal,
\* processed_signal_len, transcript, transcript_len.
C1_ConstructionCompletes ==
    (Finished /\ args.labels # None /\ args.labels # Some(<<>>)) =>
        /\ ~has_preprocessor =>
              /\ pc = "done"
              /\ NodesWith("nemo_asr_reader") # {}
              /\ pipes[1].built = 1
              /\ iterator # None
              /\ Val(iterator).output_map =
                    <<"audio", "audio_len", "transcript", "transcript_len">>
        /\ (has_preprocessor /\ pc = "done") =>
              Val(iterator).output_map =
                 <<"processed_signal", "processed_signal_len", "transcript",
                   "transcript_len">>

(* ================================ C2 =================================== *)

NoDuplicates(v) == \A i, j \in DOMAIN v : v[i] = v[j] => i = j

\* C2: for a vocabulary without duplicate characters, label2id and id2label
\* (keyed by character code) are exact inverses, the ids are the dense
\* integers 0..|V|-1 in vocabulary order, and label2id_values[k] equals
\* label2id[label2id_keys[k]] for every index k.
C2_LabelMapsInverse ==
    ("label2id" \in DOMAIN self /\ NoDuplicates(Val(args.labels))) =>
        LET V == Val(args.labels)
            l2i == self.label2id
            i2l == self.id2label
        IN  /\ DOMAIN l2i = {Ord(V[i]) : i \in DOMAIN V}
            /\ DOMAIN i2l = 0 .. Len(V) - 1
            /\ \A i \in DOMAIN V : l2i[Ord(V[i])] = i - 1
            /\ \A i \in DOMAIN V : i2l[l2i[Ord(V[i])]] = Ord(V[i])
            /\ \A id \in DOMAIN i2l : l2i[i2l[id]] = id
            /\ Len(self.label2id_keys) = Len(V)
            /\ Len(self.label2id_values) = Len(V)
            /\ \A k \in DOMAIN self.label2id_keys :
                  self.label2id_values[k] = l2i[self.label2id_keys[k]]

C2_Witness ==
    /\ pc = "pipes"
    /\ Len(Val(args.labels)) = 2
    /\ NoDuplicates(Val(args.labels))
    /\ self.label2id_values = <<0, 1>>

(* ================================ C3 =================================== *)

LabelsErrorRaised ==
    /\ pc = "failed"
    /\ error = Some([type |-> "ValueError", param |-> "labels", accepted |-> {}])
    /\ "label2id" \notin DOMAIN self
    /\ pipes = <<>>

\* C3: construction fails with a configuration error whenever labels is
\* absent or empty, raised before the label maps are built and before any
\* pipeline or graph node is created.
C3_AbsentOrEmptyFails ==
    ((args.labels = None \/ args.labels = Some(<<>>)) /\ pc \notin {"shard", "labels"})
        => LabelsErrorRaised

\* C3 as amended: the error is raised, before the maps and before any
\* pipeline, whenever labels is absent (None); an empty vocabulary is not
\* rejected: the label maps are built empty and the pipeline is created.
C3_AbsentFails ==
    /\ (args.labels = None /\ pc \notin {"shard", "labels"}) => LabelsErrorRaised
    /\ (args.labels = Some(<<>>) /\ pc \notin {"shard", "labels", "maps"}) =>
          /\ {"label2id", "id2label", "label2id_keys"} \subseteq DOMAIN self
          /\ self.label2id = EmptyDict
          /\ self.id2label = EmptyDict
          /\ self.label2id_keys = <<>>
          /\ (error # None => Val(error).param # "labels")
          /\ (pc # "pipes" => Len(pipes) = 1)

C3_Witness == args.labels = None /\ LabelsErrorRaised

(* ================================ C4 =================================== *)

\* the attribute of self that holds a field of params as it was supplied
AttrOf(f) ==
    CASE f = "window_size" -> "window_size_sec"
      [] f = "window_stride" -> "window_stride_sec"
      [] f = "lowfreq" -> "freq_low"
      [] f = "highfreq" -> "freq_high"
      [] f = "log" -> "log_features"
      [] OTHER -> f

\* the fields of params that the record keeps as values (normalize and
\* window are kept as axes and as a window tensor, features and
\* frame_splicing are not kept)
KeptFields ==
    {"dither", "preemph", "window_size", "window_stride", "sample_rate",
     "n_mels", "n_mfcc", "lowfreq", "highfreq", "log", "log_zero_guard_type",
     "log_zero_guard_value", "mag_power", "pad_to", "pad_value"}

DocumentedDefaults ==
    /\ self.dither = 1
    /\ self.preemph = 97
    /\ self.window_size_sec = 20
    /\ self.window_stride_sec = 10
    /\ self.sample_rate = args.sample_rate
    /\ self.normalization_axes = <<1>>
    /\ self.window = None
    /\ self.n_fft = None
    /\ self.n_mels = 64
    /\ self.n_mfcc = 64
    /\ self.freq_low = 0
    /\ self.freq_high = args.sample_rate
    /\ self.log_features = TRUE
    /\ self.log_zero_guard_type = "add"
    /\ self.log_zero_guard_value = [num |-> 1]
    /\ self.mag_power = 2
    /\ self.pad_to = 16
    /\ self.pad_value = 0

\* C4: with every optional field omitted the normalized record equals the
\* documented defaults, and a field that is present in params always takes
\* the supplied value instead of its default.
C4_DefaultsAndSupplied ==
    (has_preprocessor /\ ParamsAccepted) =>
        /\ params = EmptyDict => DocumentedDefaults
        /\ \A f \in DOMAIN params \cap KeptFields : self[AttrOf(f)] = params[f]
        /\ "n_fft" \in DOMAIN params => self.n_fft = Some(params["n_fft"])

\* what the record holds for a supplied field f
SuppliedValue(f) ==
    LET features == Get(params, "features", 0)
        v == params[f]
    IN  IF f = "n_mels" /\ features > 0 /\ feature_type = Some("mel_spectrogram")
        THEN features
        ELSE IF f = "n_mfcc" /\ features > 0 /\ feature_type = Some("mfcc")
        THEN features
        ELSE IF f = "log_zero_guard_value" /\ "str" \in DOMAIN v
        THEN [finfo |-> v.str]
        ELSE v

\* C4 as amended: the defaults as documented; a supplied field takes the
\* supplied value, except n_mels (for the mel class) and n_mfcc (for the
\* MFCC class), which take the value of features when features > 0, and
\* log_zero_guard_value 'tiny' or 'eps', which takes the float32 constant.
C4_DefaultsAndSuppliedUnlessOverridden ==
    (has_preprocessor /\ ParamsAccepted) =>
        /\ params = EmptyDict => DocumentedDefaults
        /\ \A f \in DOMAIN params \cap KeptFields :
              self[AttrOf(f)] = SuppliedValue(f)
        /\ "n_fft" \in DOMAIN params => self.n_fft = Some(params["n_fft"])

C4_Witness ==
    /\ has_preprocessor
    /\ args.labels = Some(<<"a", "b">>)
    /\ ParamsAccepted
    /\ pc = "reader"
    /\ params = EmptyDict
    /\ self.pad_to = 16

(* ================================ C5 =================================== *)

ValidatedFields ==
    {"normalize", "window", "log_zero_guard_type", "log_zero_guard_value",
     "mag_power"}

\* the accepted set of a validated field, as the claim gives it
Accepted(f, v) ==
    CASE f = "normalize" -> v \in {"per_feature", "all_features"}
      [] f = "window" -> v \in {None, Some("hann"), Some("ones"), Some("hamming"),
                                Some("blackman"), Some("bartlett")}
      [] f = "log_zero_guard_type" -> v \in {"add", "clamp"}
      [] f = "log_zero_guard_value" -> "num" \in DOMAIN v \/ v.str \in {"tiny", "eps"}
      [] f = "mag_power" -> v \in {1, 2}

AcceptedNames(f) ==
    CASE f = "normalize" -> {"per_feature", "all_features"}
      [] f = "window" -> {"hann", "ones", "hamming", "blackman", "bartlett", "None"}
      [] f = "log_zero_guard_type" -> {"add", "clamp"}
      [] f = "log_zero_guard_value" -> {"number", "tiny", "eps"}
      [] f = "mag_power" -> {"1.0", "2.0"}

Offending == {f \in DOMAIN params \cap ValidatedFields : ~Accepted(f, params[f])}

\* a configuration error whose message names a preprocessor field
FieldError ==
    /\ pc = "failed"
    /\ Val(error).type = "ValueError"
    /\ Val(error).param \in ValidatedFields

\* C5: a validated field outside its accepted set makes construction fail
\* with a configuration error that names that same field and its accepted
\* set; values inside the accepted sets never raise such an error.
C5_ErrorNamesOffendingField ==
    (has_preprocessor /\ ParamsRead /\ pc # "params") =>
        /\ FieldError => /\ Val(error).param \in Offending
                         /\ Val(error).accepted = AcceptedNames(Val(error).param)
        /\ Offending # {} => pc = "failed"
        /\ (Offending # {} /\ "frame_splicing" \notin DOMAIN params) => FieldError
        /\ Offending = {} => ~FieldError

(* ================================ C6 =================================== *)

\* C6: world_size > 1 gives shard_id = global_rank and num_shards =
\* world_size; world_size <= 1 leaves both None whatever global_rank is;
\* and these are the values passed to the reader node.
C6_Sharding ==
    ("shard_id" \in DOMAIN self) =>
        LET sid == IF args.world_size > 1 THEN Some(args.global_rank) ELSE None
            ns == IF args.world_size > 1 THEN Some(args.world_size) ELSE None
        IN  /\ self.shard_id = sid
            /\ self.num_shards = ns
            /\ \A i \in NodesWith("nemo_asr_reader") :
                  /\ nodes[i].args.shard_id = sid
                  /\ nodes[i].args.num_shards = ns

C6_Witness ==
    /\ args.labels = Some(<<"a", "b">>)
    /\ args.world_size = 2
    /\ args.global_rank = 1
    /\ \E i \in NodesWith("nemo_asr_reader") :
          /\ nodes[i].args.shard_id = Some(1)
          /\ nodes[i].args.num_shards = Some(2)

(* ================================ C7 =================================== *)

\* C7: normalize 'per_feature' (or omitted) gives the axes (1,),
\* 'all_features' gives (0, 1), any other value raises a configuration
\* error and assigns no axes; the normalize node gets the axes so derived.
C7_NormalizationAxes ==
    (has_preprocessor /\ ParamsRead /\ pc # "params") =>
        LET normalize == Get(params, "normalize", "per_feature")
        IN  /\ normalize = "per_feature" => self.normalization_axes = <<1>>
            /\ normalize = "all_features" => self.normalization_axes = <<0, 1>>
            /\ normalize \notin {"per_feature", "all_features"} =>
                  /\ pc = "failed"
                  /\ Val(error).type = "ValueError"
                  /\ Val(error).param = "normalize"
                  /\ "normalization_axes" \notin DOMAIN self
            /\ \A i \in NodesWith("normalize") :
                  nodes[i].args.axes =
                     IF normalize = "per_feature" THEN <<1>> ELSE <<0, 1>>

C7_Witness ==
    /\ pc = "done"
    /\ "normalize" \in DOMAIN params
    /\ params["normalize"] = "all_features"
    /\ \E i \in NodesWith("normalize") : nodes[i].args.axes = <<0, 1>>

(* ================================ C8 =================================== *)

\* the stage of the claim's list that a node is, "" for the other nodes
\* (the reader, the transcript branch, the helpers of a stage)
StageOf(n) ==
    CASE n.op = "nonsilent_region" -> "nonsilent_region"
      [] n.op = "gpu" /\ n.out = "audio" -> "device_transfer"
      [] n.op = "add" /\ n.out = "audio" -> "dither"
      [] n.op = "preemphasis_filter" -> "preemphasis"
      [] n.op = "spectrogram" -> "spectrogram"
      [] n.op = "mel_filter_bank" -> "mel_filter_bank"
      [] n.op = "mfcc" -> "mfcc"
      [] n.op = "add" /\ n.out = "spec" -> "guard_add"
      [] n.op = "to_decibels" -> "to_decibels"
      [] n.op = "normalize" -> "normalize"
      [] n.op = "slice" /\ n.out = "spec_len" -> "feature_length"
      [] n.op = "pad" /\ n.out = "spec" -> "pad"
      [] OTHER -> ""

IsStage(n) == StageOf(n) # ""

\* the stages of the graph, in the order their nodes were declared
Stages ==
    LET st == SelectSeq(nodes, IsStage)
    IN  [i \in DOMAIN st |-> StageOf(st[i])]

Opt(cond, stage) == IF cond THEN <<stage>> ELSE <<>>

\* the claim's list, from the arguments and the params as supplied
ClaimedStages ==
    Opt(args.trim_silence, "nonsilent_region")
    \o Opt(args.device = "gpu", "device_transfer")
    \o Opt(Get(params, "dither", 1) > 0, "dither")
    \o Opt(Get(params, "preemph", 97) > 0, "preemphasis")
    \o <<"spectrogram", "mel_filter_bank">>
    \o Opt(Val(args.preprocessor_cfg).cls = MFCCCls, "mfcc")
    \o Opt(Get(params, "log_zero_guard_type", "add") = "add", "guard_add")
    \o <<"to_decibels", "normalize", "feature_length", "pad">>

IsPrefix(a, b) == Len(a) <= Len(b) /\ SubSeq(b, 1, Len(a)) = a

OutputsSet == pipes # <<>> /\ pipes[1].outputs # None

BuiltCount == IF pipes = <<>> THEN 0 ELSE pipes[1].built

\* C8: with a preprocessor configuration that construction accepts, the
\* stages are declared in the claimed order, each optional stage exactly
\* under its condition; padding aligns to (pad_to, 1); the outputs are set
\* after all stages; the graph is compiled exactly once, after the outputs
\* are set and before the iterator adapter is initialised.
C8_GraphOrder ==
    (has_preprocessor /\ ParamsAccepted) =>
        /\ IsPrefix(Stages, ClaimedStages)
        /\ OutputsSet => Stages = ClaimedStages
        /\ \A i \in DOMAIN nodes : StageOf(nodes[i]) = "pad" =>
              nodes[i].args.align = <<Get(params, "pad_to", 16), 1>>
        /\ BuiltCount <= 1
        /\ BuiltCount = 1 => OutputsSet
        /\ iterator # None => BuiltCount = 1
        /\ pc \in {"iterator", "done"} => BuiltCount = 1
        /\ pc = "done" => iterator # None

C8_Witness ==
    /\ pc = "done"
    /\ args.trim_silence
    /\ args.device = "gpu"
    /\ Val(args.preprocessor_cfg).cls = MFCCCls
    /\ params = EmptyDict
    /\ Len(Stages) = 12
    /\ BuiltCount = 1

(* ================================ C9 =================================== *)

\* C9: the spectrogram node's window length is int(window_size *
\* sample_rate) and its window step is int(window_stride * sample_rate).
C9_WindowSamples ==
    \A i \in NodesWith("spectrogram") :
        LET sr == Get(params, "sample_rate", args.sample_rate)
        IN  /\ nodes[i].args.window_length =
                  ToSamples(Get(params, "window_size", 20), sr)
            /\ nodes[i].args.window_step =
                  ToSamples(Get(params, "window_stride", 10), sr)

(* ================================ C10 ================================== *)

\* the two values of a field that the claim compares
Variants(f) ==
    CASE f = "window" -> {Some("hann"), Some("hamming")}
      [] f = "mag_power" -> {1, 2}
      [] f = "log" -> {TRUE, FALSE}

WithParam(a, f, v) ==
    [a EXCEPT !.preprocessor_cfg =
        Cfg(Val(a.preprocessor_cfg).cls, Put(Val(a.preprocessor_cfg).params, f, v))]

\* C10: two constructions that differ only in the value of window (hann /
\* hamming), of mag_power (1.0 / 2.0) or of log (true / false) produce
\* different operator graphs.
C10_OptionsChangeGraph ==
    (pc = "done" /\ has_preprocessor) =>
        \A f \in {"window", "mag_power", "log"} :
            \A v, w \in Variants(f) :
                (f \in DOMAIN params /\ params[f] = v /\ w # v) =>
                    GraphOf(WithParam(args, f, w)).nodes # nodes

\* the machine and the function agree on the graph of a finished construction
GraphOfAgrees ==
    (pc = "done" /\ has_preprocessor) =>
        GraphOf(args) = [nodes |-> nodes, error |-> None]

====
